---- MODULE Spec2Model ----
(***************************************************************************)
(* Model of scripts/check-contract-state.py: a sequential script that      *)
(* connects to a JSON-RPC endpoint, reads the pause flags of two pool      *)
(* contracts and the state of a yield aggregator, and prints a readiness   *)
(* summary.  Every RPC round trip is one step whose outcome (a value or a  *)
(* raised exception) is chosen nondeterministically.                       *)
(***************************************************************************)
EXTENDS Integers, Sequences, FiniteSets, TLC

VARIABLES pc, exit_code, out, err, calls, w3,
          ind_paused, coop_paused,
          is_paused, deposits_paused, agg_state,
          can_deposit, issues

vars == <<pc, exit_code, out, err, calls, w3, ind_paused, coop_paused,
          is_paused, deposits_paused, agg_state, can_deposit, issues>>

\* ------------------------------------------------------------------ bounds
MaxVaults == 2
MaxBlock == 1

\* --------------------------------------------------------------- constants
CHAIN_ID == 31611

MEZO_TESTNET_RPC == "https://testnet-rpc.mezo.org"

INDIVIDUAL_POOL == "0xC2c7c8E1325Ec049302F225c8A0151E561F446Ed"

COOPERATIVE_POOL == "0xDDe8c75271E454075BD2f348213A66B142BB8906"

YIELD_AGGREGATOR == "0xfB3265402f388d72a9b63353b4a7BeeC4fD9De4c"

\* ------------------------------------------------------- the environment
\* Exceptions an RPC call can raise (their string representation).
Errors == {"timeout", "execution reverted"}

\* Addresses activeVaultsList() can return.
Addresses == {"0xVaultA", "0xVaultB"}

VaultLists == UNION {[1..n -> Addresses] : n \in 0..MaxVaults}

Ok(v) == [ok |-> TRUE, val |-> v, e |-> ""]

Fail(e) == [ok |-> FALSE, val |-> FALSE, e |-> e]

FailList(e) == [ok |-> FALSE, val |-> <<>>, e |-> e]

\* Outcomes of a bool-returning view call: a value or an exception.
BoolOutcomes == {Ok(b) : b \in BOOLEAN} \cup {Fail(e) : e \in Errors}

\* Outcomes of activeVaultsList().
ListOutcomes == {Ok(l) : l \in VaultLists} \cup {FailList(e) : e \in Errors}

\* Outcomes of w3.eth.block_number.
BlockOutcomes == {[ok |-> TRUE, val |-> n, e |-> ""] : n \in 0..MaxBlock}
                 \cup {[ok |-> FALSE, val |-> 0, e |-> e] : e \in Errors}

\* Outcomes of Web3(HTTPProvider(..)) followed by is_connected().
ConnectOutcomes == {Ok(b) : b \in BOOLEAN} \cup {Fail(e) : e \in Errors}

\* ------------------------------------------------------- Python values
\* An optional value: None is the empty set, a value v is {v}.
None == {}

Some(v) == {v}

\* Truth value of `if x:` for x in {None, True, False}.
Truthy(x) == TRUE \in x

\* ------------------------------------------------------------ printing
\* A printed line: the f-string template and the values substituted in it.
Line(t) == [text |-> t, a1 |-> "", a2 |-> "", n |-> 0]

LineS(t, a) == [text |-> t, a1 |-> a, a2 |-> "", n |-> 0]

LineSS(t, a, b) == [text |-> t, a1 |-> a, a2 |-> b, n |-> 0]

LineN(t, k) == [text |-> t, a1 |-> "", a2 |-> "", n |-> k]

Rule == Line("============================================================")

Dash == Line("------------------------------------------------------------")

Blank == Line("")

\* One entry of the call log: which contract function was called and
\* what came back.
Call(addr, fn, o) ==
    [addr |-> addr, fn |-> fn, ok |-> o.ok, val |-> o.val, e |-> o.e]

Init ==
    /\ pc = "start"
    /\ exit_code = None
    /\ out = <<>>
    /\ err = <<>>
    /\ calls = <<>>
    /\ w3 = "unset"
    /\ ind_paused = None
    /\ coop_paused = None
    /\ is_paused = None
    /\ deposits_paused = None
    /\ agg_state = None
    /\ can_deposit = TRUE
    /\ issues = <<>>

\* ------------------------------------------------- check_contract_paused
\* The line the except clauses print (with print(), hence on stdout).
ErrorLine(contract_name, e) ==
    LineSS("Error checking {contract_name}: {e}", contract_name, e)

\* Variant: no try/except, the exception of the call leaves the function.
check_contract_paused_uncaught(o, contract_name) ==
    IF o.ok
    THEN [raised |-> FALSE, e |-> "", ret |-> Some(o.val),
          stdout |-> <<>>, stderr |-> <<>>]
    ELSE [raised |-> TRUE, e |-> o.e, ret |-> None,
          stdout |-> <<>>, stderr |-> <<>>]

\* Variant: the except clause prints with file=sys.stderr.
check_contract_paused_stderr(o, contract_name) ==
    IF o.ok
    THEN [raised |-> FALSE, e |-> "", ret |-> Some(o.val),
          stdout |-> <<>>, stderr |-> <<>>]
    ELSE [raised |-> FALSE, e |-> "", ret |-> None,
          stdout |-> <<>>, stderr |-> <<ErrorLine(contract_name, o.e)>>]

\* check_contract_paused(w3, contract_address, contract_name), given the
\* outcome o of contract.functions.paused().call().  The result says
\* whether the function raised, what it returned and what it wrote to
\* stdout and to stderr.
check_contract_paused(o, contract_name) ==
    IF o.ok
    THEN [raised |-> FALSE, e |-> "", ret |-> Some(o.val),
          stdout |-> <<>>, stderr |-> <<>>]
    ELSE [raised |-> FALSE, e |-> "", ret |-> None,
          stdout |-> <<ErrorLine(contract_name, o.e)>>, stderr |-> <<>>]

\* The status line main prints for a pool.
StatusLine(name, paused) ==
    IF paused = None
    THEN LineS("{name}: Status unknown", name)
    ELSE LineSS("{name}: {status}", name,
                IF Truthy(paused) THEN "PAUSED" ELSE "ACTIVE")

\* An exception nobody catches: the interpreter writes the traceback to
\* stderr and the process exits with status 1.
Uncaught(e) ==
    /\ err' = Append(err, LineS("Traceback (most recent call last): {e}", e))
    /\ exit_code' = Some(1)
    /\ pc' = "done"

\* ------------------------------------------------------------------ main
Banner ==
    << Rule, Line("Contract State Checker - KhipuVault"), Rule,
       LineN("Network: Mezo Testnet (Chain ID: {CHAIN_ID})", CHAIN_ID),
       LineS("RPC: {MEZO_TESTNET_RPC}", MEZO_TESTNET_RPC), Blank >>

\* Variant: the result of is_connected() is not looked at.
ConnectNextIgnoresIsConnected(o) == IF o.ok THEN "block" ELSE "exit"

\* Where main goes after the connection attempt with outcome o:
\* on to the block-number read, or sys.exit(1).
ConnectNext(o) == IF o.ok /\ o.val THEN "block" ELSE "exit"

\* The line printed when the connection attempt does not succeed.
ConnectFailLine(o) ==
    IF o.ok THEN Line("Failed to connect to Mezo Testnet RPC")
            ELSE LineS("Connection error: {e}", o.e)

\* What became of the connection attempt with outcome o.
ConnectState(o) ==
    IF ~o.ok THEN "raised" ELSE IF o.val THEN "connected" ELSE "not_connected"

\* Banner, then Web3(HTTPProvider(..)) and is_connected().
Connect ==
    /\ pc = "start"
    /\ \E o \in ConnectOutcomes :
          /\ w3' = ConnectState(o)
          /\ IF ConnectNext(o) = "exit"
             THEN /\ out' = Banner \o <<ConnectFailLine(o)>>
                  /\ exit_code' = Some(1)
                  /\ pc' = "done"
             ELSE /\ out' = Banner
                  /\ exit_code' = exit_code
                  /\ pc' = ConnectNext(o)
    /\ UNCHANGED <<err, calls, ind_paused, coop_paused, is_paused,
                   deposits_paused, agg_state, can_deposit, issues>>

\* print(f"Connected ... (Block: {w3.eth.block_number})"), outside any try.
BlockNumber ==
    /\ pc = "block"
    /\ \E o \in BlockOutcomes :
          IF o.ok
          THEN /\ out' = out \o << LineN("Connected to Mezo Testnet (Block: {block_number})", o.val),
                                   Blank, Line("Contract Status:"), Dash >>
               /\ pc' = "ind"
               /\ UNCHANGED <<err, exit_code>>
          ELSE /\ Uncaught(o.e)
               /\ UNCHANGED out
    /\ UNCHANGED <<calls, w3, ind_paused, coop_paused, is_paused,
                   deposits_paused, agg_state, can_deposit, issues>>

\* ind_paused = check_contract_paused(..., "IndividualPool") and its
\* status line.
CheckIndividualPool ==
    /\ pc = "ind"
    /\ \E o \in BoolOutcomes :
          LET r == check_contract_paused(o, "IndividualPool") IN
          /\ calls' = Append(calls, Call(INDIVIDUAL_POOL, "paused", o))
          /\ IF r.raised
             THEN /\ Uncaught(r.e)
                  /\ out' = out \o r.stdout
                  /\ UNCHANGED ind_paused
             ELSE /\ ind_paused' = r.ret
                  /\ out' = out \o r.stdout \o <<StatusLine("IndividualPool", r.ret)>>
                  /\ err' = err \o r.stderr
                  /\ pc' = "coop"
                  /\ UNCHANGED exit_code
    /\ UNCHANGED <<w3, coop_paused, is_paused, deposits_paused, agg_state,
                   can_deposit, issues>>

\* coop_paused = check_contract_paused(..., "CooperativePool"), its
\* status line and the heading of the aggregator section.
CheckCooperativePool ==
    /\ pc = "coop"
    /\ \E o \in BoolOutcomes :
          LET r == check_contract_paused(o, "CooperativePool") IN
          /\ calls' = Append(calls, Call(COOPERATIVE_POOL, "paused", o))
          /\ IF r.raised
             THEN /\ Uncaught(r.e)
                  /\ out' = out \o r.stdout
                  /\ UNCHANGED coop_paused
             ELSE /\ coop_paused' = r.ret
                  /\ out' = out \o r.stdout
                               \o << StatusLine("CooperativePool", r.ret),
                                     Blank, Line("YieldAggregator Details:"), Dash >>
                  /\ err' = err \o r.stderr
                  /\ pc' = "agg_paused"
                  /\ UNCHANGED exit_code
    /\ UNCHANGED <<w3, ind_paused, is_paused, deposits_paused, agg_state,
                   can_deposit, issues>>

\* ------------------------------------------ check_yield_aggregator_state
\* The dict the function returns when its three calls succeeded.
AggReturn(p, d, vaults) ==
    [raised |-> FALSE, e |-> "",
     ret |-> Some([paused |-> p, deposits_paused |-> d,
                   num_vaults |-> Len(vaults), vaults |-> vaults]),
     stdout |-> <<>>, stderr |-> <<>>]

\* Variant: the except clause returns what was read before the failure.
AggExceptPartial(e, p, d) ==
    [raised |-> FALSE, e |-> "",
     ret |-> IF p = None THEN None
             ELSE Some([paused |-> Truthy(p), deposits_paused |-> Truthy(d),
                        num_vaults |-> 0, vaults |-> <<>>]),
     stdout |-> <<ErrorLine("YieldAggregator", e)>>, stderr |-> <<>>]

\* The except clause of the function; p and d are its locals is_paused and
\* deposits_paused as far as they were assigned when the exception came.
AggExcept(e, p, d) ==
    [raised |-> FALSE, e |-> "", ret |-> None,
     stdout |-> <<ErrorLine("YieldAggregator", e)>>, stderr |-> <<>>]

\* What main prints for the state the function returned.
AggDetails(state) ==
    IF state = None THEN <<>>
    ELSE LET st == CHOOSE x \in state : TRUE IN
         << LineS("  Status: {agg_status}",
                  IF st.paused THEN "PAUSED" ELSE "ACTIVE"),
            LineS("  Deposits: {deposits_status}",
                  IF st.deposits_paused THEN "PAUSED" ELSE "ENABLED"),
            LineN("  Configured Vaults: {num_vaults}", st.num_vaults) >>
         \o (IF st.num_vaults = 0
             THEN <<Line("  WARNING: No vaults configured!")>>
             ELSE <<Line("  Vaults:")>>
                  \o [i \in 1..Len(st.vaults) |-> LineS("    - {vault}", st.vaults[i])])

\* The function hands r back to main (agg_state = ...), which prints the
\* details of the state, if any.
AggBackInMain(r) ==
    IF r.raised
    THEN /\ Uncaught(r.e)
         /\ out' = out \o r.stdout
         /\ UNCHANGED agg_state
    ELSE /\ agg_state' = r.ret
         /\ out' = out \o r.stdout \o AggDetails(r.ret)
         /\ err' = err \o r.stderr
         /\ pc' = "summary"
         /\ UNCHANGED exit_code

\* Variant: paused() has a try/except of its own and the function goes on
\* to depositsPaused() after a failure.
AggPausedContinues ==
    /\ pc = "agg_paused"
    /\ \E o \in BoolOutcomes :
          /\ calls' = Append(calls, Call(YIELD_AGGREGATOR, "paused", o))
          /\ is_paused' = Some(o.ok /\ o.val)
          /\ out' = IF o.ok THEN out ELSE Append(out, ErrorLine("YieldAggregator", o.e))
          /\ pc' = "agg_deposits"
          /\ UNCHANGED <<err, exit_code, agg_state>>
    /\ UNCHANGED <<w3, ind_paused, coop_paused, deposits_paused, can_deposit, issues>>

\* is_paused = contract.functions.paused().call()
AggPaused ==
    /\ pc = "agg_paused"
    /\ \E o \in BoolOutcomes :
          /\ calls' = Append(calls, Call(YIELD_AGGREGATOR, "paused", o))
          /\ IF o.ok
             THEN /\ is_paused' = Some(o.val)
                  /\ pc' = "agg_deposits"
                  /\ UNCHANGED <<out, err, exit_code, agg_state>>
             ELSE /\ AggBackInMain(AggExcept(o.e, is_paused, deposits_paused))
                  /\ UNCHANGED is_paused
    /\ UNCHANGED <<w3, ind_paused, coop_paused, deposits_paused, can_deposit, issues>>

\* deposits_paused = contract.functions.depositsPaused().call()
AggDepositsPaused ==
    /\ pc = "agg_deposits"
    /\ \E o \in BoolOutcomes :
          /\ calls' = Append(calls, Call(YIELD_AGGREGATOR, "depositsPaused", o))
          /\ IF o.ok
             THEN /\ deposits_paused' = Some(o.val)
                  /\ pc' = "agg_vaults"
                  /\ UNCHANGED <<out, err, exit_code, agg_state>>
             ELSE /\ AggBackInMain(AggExcept(o.e, is_paused, deposits_paused))
                  /\ UNCHANGED deposits_paused
    /\ UNCHANGED <<w3, ind_paused, coop_paused, is_paused, can_deposit, issues>>

\* vaults = contract.functions.activeVaultsList().call() and the return.
AggActiveVaults ==
    /\ pc = "agg_vaults"
    /\ \E o \in ListOutcomes :
          /\ calls' = Append(calls, Call(YIELD_AGGREGATOR, "activeVaultsList", o))
          /\ IF o.ok
             THEN AggBackInMain(AggReturn(Truthy(is_paused), Truthy(deposits_paused), o.val))
             ELSE AggBackInMain(AggExcept(o.e, is_paused, deposits_paused))
    /\ UNCHANGED <<w3, ind_paused, coop_paused, is_paused, deposits_paused,
                   can_deposit, issues>>

\* ---------------------------------------------------------- the summary
Issue(subject, msg) == [subject |-> subject, msg |-> msg]

IndividualPoolIssue == Issue("IndividualPool", "IndividualPool is paused")

AggPausedIssue == Issue("YieldAggregator", "YieldAggregator is paused")

AggDepositsIssue == Issue("YieldAggregator", "YieldAggregator deposits are paused")

NoVaultsIssue == Issue("YieldAggregator", "No vaults configured in YieldAggregator")

\* can_deposit = False; issues.append(i)
Flag(v, i) == [can |-> FALSE, issues |-> Append(v.issues, i)]

\* Variant: the check of num_vaults is missing.
ReadinessNoVaultCheck(ind, coop, agg) ==
    LET v0 == [can |-> TRUE, issues |-> <<>>]
        v1 == IF Truthy(ind) THEN Flag(v0, IndividualPoolIssue) ELSE v0
    IN  IF agg = None THEN v1
        ELSE LET st == CHOOSE x \in agg : TRUE
                 v2 == IF st.paused THEN Flag(v1, AggPausedIssue) ELSE v1
             IN  IF st.deposits_paused THEN Flag(v2, AggDepositsIssue) ELSE v2

\* Variant: a paused CooperativePool blocks deposits too.
ReadinessWithCoop(ind, coop, agg) ==
    LET v0 == [can |-> TRUE, issues |-> <<>>]
        v1 == IF Truthy(ind) THEN Flag(v0, IndividualPoolIssue) ELSE v0
        vc == IF Truthy(coop)
              THEN Flag(v1, Issue("CooperativePool", "CooperativePool is paused"))
              ELSE v1
    IN  IF agg = None THEN vc
        ELSE LET st == CHOOSE x \in agg : TRUE
                 v2 == IF st.paused THEN Flag(vc, AggPausedIssue) ELSE vc
                 v3 == IF st.deposits_paused THEN Flag(v2, AggDepositsIssue) ELSE v2
             IN  IF st.num_vaults = 0 THEN Flag(v3, NoVaultsIssue) ELSE v3

\* Variant: `if ind_paused is not False`, an unknown status counts as paused.
ReadinessUnknownIsPaused(ind, coop, agg) ==
    LET v0 == [can |-> TRUE, issues |-> <<>>]
        v1 == IF ind /= Some(FALSE) THEN Flag(v0, IndividualPoolIssue) ELSE v0
    IN  IF agg = None THEN v1
        ELSE LET st == CHOOSE x \in agg : TRUE
                 v2 == IF st.paused THEN Flag(v1, AggPausedIssue) ELSE v1
                 v3 == IF st.deposits_paused THEN Flag(v2, AggDepositsIssue) ELSE v2
             IN  IF st.num_vaults = 0 THEN Flag(v3, NoVaultsIssue) ELSE v3

\* Variant: paused deposits are listed but can_deposit is left as it is.
ReadinessDepositsNoFlag(ind, coop, agg) ==
    LET v0 == [can |-> TRUE, issues |-> <<>>]
        v1 == IF Truthy(ind) THEN Flag(v0, IndividualPoolIssue) ELSE v0
    IN  IF agg = None THEN v1
        ELSE LET st == CHOOSE x \in agg : TRUE
                 v2 == IF st.paused THEN Flag(v1, AggPausedIssue) ELSE v1
                 v3 == IF st.deposits_paused
                       THEN [can |-> v2.can, issues |-> Append(v2.issues, AggDepositsIssue)]
                       ELSE v2
             IN  IF st.num_vaults = 0 THEN Flag(v3, NoVaultsIssue) ELSE v3

\* "Determine if deposits will work": the verdict main computes from its
\* locals ind_paused, coop_paused and agg_state.
Readiness(ind, coop, agg) ==
    LET v0 == [can |-> TRUE, issues |-> <<>>]
        v1 == IF Truthy(ind) THEN Flag(v0, IndividualPoolIssue) ELSE v0
    IN  IF agg = None THEN v1
        ELSE LET st == CHOOSE x \in agg : TRUE
                 v2 == IF st.paused THEN Flag(v1, AggPausedIssue) ELSE v1
                 v3 == IF st.deposits_paused THEN Flag(v2, AggDepositsIssue) ELSE v2
             IN  IF st.num_vaults = 0 THEN Flag(v3, NoVaultsIssue) ELSE v3

SuccessLine == Line("All checks passed - Deposits should work!")

IssuesHeader == Line("Issues found preventing deposits:")

IssueLine(i) == LineS("  {issue}", i.msg)

FixHint ==
    << Blank, Line("To fix:"),
       Line("  1. Run: bash scripts/unpause-contracts.sh"),
       Line("  2. Ensure DEPLOYER_PRIVATE_KEY environment variable is set"),
       Line("  3. Ensure MEZO_TESTNET_RPC environment variable is set (optional)") >>

\* What main prints for the verdict.
VerdictLines(can, iss) ==
    IF can THEN <<SuccessLine>>
    ELSE <<IssuesHeader>> \o [i \in 1..Len(iss) |-> IssueLine(iss[i])] \o FixHint

SummaryHeader == <<Blank, Rule, Line("Summary:"), Dash>>

\* The summary block; main then returns and the process exits with 0.
Summary ==
    /\ pc = "summary"
    /\ LET v == Readiness(ind_paused, coop_paused, agg_state) IN
          /\ can_deposit' = v.can
          /\ issues' = v.issues
          /\ out' = out \o SummaryHeader \o VerdictLines(v.can, v.issues) \o <<Rule>>
    /\ exit_code' = Some(0)
    /\ pc' = "done"
    /\ UNCHANGED <<err, calls, w3, ind_paused, coop_paused, is_paused,
                   deposits_paused, agg_state>>

Next ==
    \/ Connect
    \/ BlockNumber
    \/ CheckIndividualPool
    \/ CheckCooperativePool
    \/ AggPaused
    \/ AggDepositsPaused
    \/ AggActiveVaults
    \/ Summary

Spec == Init /\ [][Next]_vars

\* The script is one thread that runs to its end: every call blocks until
\* it returns or raises, so a step that can be taken is taken.
FairSpec == Spec /\ WF_vars(Next)

\* ===================================================== properties
\* --------------------------------------------- reading the call log
Returned(addr, fn, v) ==
    \E i \in DOMAIN calls :
        calls[i].addr = addr /\ calls[i].fn = fn /\ calls[i].ok /\ calls[i].val = v

Succeeded(addr, fn) ==
    \E i \in DOMAIN calls : calls[i].addr = addr /\ calls[i].fn = fn /\ calls[i].ok

Failed(addr, fn) ==
    \E i \in DOMAIN calls : calls[i].addr = addr /\ calls[i].fn = fn /\ ~calls[i].ok

Issued(addr, fn) ==
    \E i \in DOMAIN calls : calls[i].addr = addr /\ calls[i].fn = fn

\* The aggregator inspection succeeded: its three calls returned.
AggSucceeded ==
    /\ Succeeded(YIELD_AGGREGATOR, "paused")
    /\ Succeeded(YIELD_AGGREGATOR, "depositsPaused")
    /\ Succeeded(YIELD_AGGREGATOR, "activeVaultsList")

\* The aggregator inspection failed: one of its calls raised.
AggFailed ==
    \E i \in DOMAIN calls : calls[i].addr = YIELD_AGGREGATOR /\ ~calls[i].ok

VaultCountPositive ==
    \E i \in DOMAIN calls :
        /\ calls[i].addr = YIELD_AGGREGATOR /\ calls[i].fn = "activeVaultsList"
        /\ calls[i].ok /\ Len(calls[i].val) > 0

VaultCountZero ==
    \E i \in DOMAIN calls :
        /\ calls[i].addr = YIELD_AGGREGATOR /\ calls[i].fn = "activeVaultsList"
        /\ calls[i].ok /\ Len(calls[i].val) = 0

Printed(l) == \E i \in DOMAIN out : out[i] = l

\* The run went through the summary block and main returned.
SummaryDone == pc = "done" /\ Printed(Line("Summary:"))

\* ------------------------------------------------------------------ C1
\* C1: when the aggregator inspection succeeded, the final canDeposit is
\* true exactly when IndividualPool's paused() did not return true, the
\* aggregator's paused() and depositsPaused() returned false and the
\* vault list is not empty.
C1_CanDepositIff ==
    (SummaryDone /\ AggSucceeded) =>
        (can_deposit <=>
            /\ ~Returned(INDIVIDUAL_POOL, "paused", TRUE)
            /\ Returned(YIELD_AGGREGATOR, "paused", FALSE)
            /\ Returned(YIELD_AGGREGATOR, "depositsPaused", FALSE)
            /\ VaultCountPositive)

\* Nothing is paused, but the aggregator has no vault: no deposit.
C1_Witness ==
    /\ SummaryDone
    /\ Returned(INDIVIDUAL_POOL, "paused", FALSE)
    /\ Returned(YIELD_AGGREGATOR, "paused", FALSE)
    /\ Returned(YIELD_AGGREGATOR, "depositsPaused", FALSE)
    /\ VaultCountZero
    /\ ~can_deposit

\* ------------------------------------------------------------------ C2
\* The log without the CooperativePool call.
OtherCalls == SelectSeq(calls, LAMBDA c : c.addr /= COOPERATIVE_POOL)

OtherReturned(addr, fn, v) ==
    \E i \in DOMAIN OtherCalls :
        /\ OtherCalls[i].addr = addr /\ OtherCalls[i].fn = fn
        /\ OtherCalls[i].ok /\ OtherCalls[i].val = v

OtherNoVaults ==
    \E i \in DOMAIN OtherCalls :
        /\ OtherCalls[i].fn = "activeVaultsList"
        /\ OtherCalls[i].ok /\ Len(OtherCalls[i].val) = 0

OtherAggSucceeded ==
    \E i \in DOMAIN OtherCalls :
        OtherCalls[i].fn = "activeVaultsList" /\ OtherCalls[i].ok

IssueOrder == <<IndividualPoolIssue, AggPausedIssue, AggDepositsIssue, NoVaultsIssue>>

\* The issues as a function of what the calls other than CooperativePool's
\* returned.
IssueHolds(i) ==
    \/ i = IndividualPoolIssue /\ OtherReturned(INDIVIDUAL_POOL, "paused", TRUE)
    \/ /\ i = AggPausedIssue /\ OtherAggSucceeded
       /\ OtherReturned(YIELD_AGGREGATOR, "paused", TRUE)
    \/ /\ i = AggDepositsIssue /\ OtherAggSucceeded
       /\ OtherReturned(YIELD_AGGREGATOR, "depositsPaused", TRUE)
    \/ i = NoVaultsIssue /\ OtherNoVaults

\* C2: the verdict is a function of the outcomes of the calls other than
\* CooperativePool's paused(), so two runs that differ only in that
\* outcome have the same canDeposit and the same issues; replacing the
\* value of coop_paused by any other leaves the verdict as it is; and no
\* issue names CooperativePool.
C2_CoopNeverInfluences ==
    SummaryDone =>
        /\ issues = SelectSeq(IssueOrder, IssueHolds)
        /\ can_deposit = (SelectSeq(IssueOrder, IssueHolds) = <<>>)
        /\ \A c \in {None, Some(TRUE), Some(FALSE)} :
              Readiness(ind_paused, c, agg_state)
                  = [can |-> can_deposit, issues |-> issues]
        /\ \A i \in DOMAIN issues : issues[i].subject /= "CooperativePool"

\* CooperativePool is paused and the verdict is still "deposits work".
C2_Witness ==
    /\ SummaryDone
    /\ Returned(COOPERATIVE_POOL, "paused", TRUE)
    /\ can_deposit
    /\ issues = <<>>

\* ------------------------------------------------------------------ C3
\* C3: if the aggregator inspection failed, none of the three aggregator
\* issues is listed and canDeposit is false exactly when IndividualPool's
\* paused() returned true: it is true when that call returned false and
\* when it failed.
C3_AggFailedVerdict ==
    (SummaryDone /\ AggFailed) =>
        /\ \A i \in DOMAIN issues :
              issues[i] \notin {AggPausedIssue, AggDepositsIssue, NoVaultsIssue}
        /\ Returned(INDIVIDUAL_POOL, "paused", TRUE) => ~can_deposit
        /\ Returned(INDIVIDUAL_POOL, "paused", FALSE) => can_deposit
        /\ Failed(INDIVIDUAL_POOL, "paused") => can_deposit

\* The aggregator reported paused and then failed on its vault list, and
\* IndividualPool's status is unknown: deposits are said to work.
C3_Witness ==
    /\ SummaryDone
    /\ Returned(YIELD_AGGREGATOR, "paused", TRUE)
    /\ Failed(YIELD_AGGREGATOR, "activeVaultsList")
    /\ Failed(INDIVIDUAL_POOL, "paused")
    /\ can_deposit

\* ------------------------------------------------------------------ C4
AggDetailTexts ==
    {"  Status: {agg_status}", "  Deposits: {deposits_status}",
     "  Configured Vaults: {num_vaults}"}

\* C4: once one of the three aggregator calls failed there is no
\* aggregator state and no Status, Deposits or Configured Vaults line is
\* printed; a state exists only when the three calls returned, and then it
\* holds what they returned.
C4_AllOrNothing ==
    /\ AggFailed =>
          /\ agg_state = None
          /\ \A i \in DOMAIN out : out[i].text \notin AggDetailTexts
    /\ agg_state /= None =>
          /\ AggSucceeded
          /\ \A st \in agg_state :
                /\ Returned(YIELD_AGGREGATOR, "paused", st.paused)
                /\ Returned(YIELD_AGGREGATOR, "depositsPaused", st.deposits_paused)
                /\ Returned(YIELD_AGGREGATOR, "activeVaultsList", st.vaults)
                /\ st.num_vaults = Len(st.vaults)

\* paused() returned true, depositsPaused() raised: nothing is kept.
C4_Witness ==
    /\ pc = "done"
    /\ Returned(YIELD_AGGREGATOR, "paused", TRUE)
    /\ Failed(YIELD_AGGREGATOR, "depositsPaused")
    /\ agg_state = None

\* ------------------------------------------------------------------ C5
\* C5: if the connection fails (is_connected() is false or connecting
\* raises) the process has exited with status 1 and no contract call was
\* ever issued.
C5_ConnectFailureExits ==
    w3 \in {"not_connected", "raised"} =>
        /\ pc = "done"
        /\ exit_code = Some(1)
        /\ calls = <<>>

C5_Witness ==
    /\ w3 = "not_connected"
    /\ pc = "done"
    /\ exit_code = Some(1)

\* ------------------------------------------------------------------ C6
\* C6: a run whose connection was established ends with exit code 0
\* whatever happens afterwards, and exit code 1 occurs only when the
\* connection could not be established.
C6_ExitCodeFollowsConnection ==
    /\ (pc = "done" /\ w3 = "connected") => exit_code = Some(0)
    /\ exit_code = Some(1) => w3 \in {"not_connected", "raised"}

\* ------------------------------------------------------------------ C7
\* C7: once the contract checks have begun, a run that has ended has
\* called CooperativePool and the aggregator whatever failed before, and
\* every such run gets to the end of the summary block.
C7_FailuresIsolated ==
    /\ [](pc = "done" /\ calls /= <<>> =>
            /\ Issued(COOPERATIVE_POOL, "paused")
            /\ Issued(YIELD_AGGREGATOR, "paused")
            /\ SummaryDone)
    /\ (pc = "ind" ~> SummaryDone)

\* Both pools and the aggregator failed, and the summary was printed.
C7_Witness ==
    /\ SummaryDone
    /\ Failed(INDIVIDUAL_POOL, "paused")
    /\ Failed(COOPERATIVE_POOL, "paused")
    /\ Failed(YIELD_AGGREGATOR, "paused")

\* ------------------------------------------------------------------ C8
PoolName(addr) ==
    IF addr = INDIVIDUAL_POOL THEN "IndividualPool" ELSE "CooperativePool"

PoolFailures ==
    {i \in DOMAIN calls :
        calls[i].addr \in {INDIVIDUAL_POOL, COOPERATIVE_POOL} /\ ~calls[i].ok}

\* The check went on to the contract after the one of call i.
WentOn(i) == pc = (IF i = 1 THEN "coop" ELSE "agg_paused") \/ Len(calls) > i

\* C8 as stated: when a pool's paused() fails, the error is logged to
\* standard error with the contract's name, and the check goes on.
C8_ErrorOnStderr ==
    \A i \in PoolFailures :
        /\ \E k \in DOMAIN err : err[k] = ErrorLine(PoolName(calls[i].addr), calls[i].e)
        /\ WentOn(i)

\* C8 amended: when a pool's paused() fails, the error is printed to
\* standard output, and nothing to standard error, with the contract's
\* name, and the check goes on with the next contract.
C8_ErrorOnStdout ==
    \A i \in PoolFailures :
        /\ Printed(ErrorLine(PoolName(calls[i].addr), calls[i].e))
        /\ err = <<>>
        /\ WentOn(i)

C8_Witness ==
    /\ pc = "coop"
    /\ Failed(INDIVIDUAL_POOL, "paused")
    /\ Printed(ErrorLine("IndividualPool", "timeout"))

\* ------------------------------------------------------------------ C9
CallOrder ==
    << <<INDIVIDUAL_POOL, "paused">>, <<COOPERATIVE_POOL, "paused">>,
       <<YIELD_AGGREGATOR, "paused">>, <<YIELD_AGGREGATOR, "depositsPaused">>,
       <<YIELD_AGGREGATOR, "activeVaultsList">> >>

\* C9: the calls issued so far are the first calls of the fixed order,
\* each once, so at most five; and a failed aggregator call is the last
\* call of the run.
C9_CallOrder ==
    /\ Len(calls) <= Len(CallOrder)
    /\ \A i \in DOMAIN calls : <<calls[i].addr, calls[i].fn>> = CallOrder[i]
    /\ \A i \in DOMAIN calls :
          (calls[i].addr = YIELD_AGGREGATOR /\ ~calls[i].ok) =>
              /\ i = Len(calls)
              /\ pc \in {"summary", "done"}

\* depositsPaused() failed: four calls and no fifth.
C9_Witness ==
    /\ pc = "done"
    /\ Len(calls) = 4
    /\ ~calls[4].ok
    /\ ~calls[1].ok

\* ----------------------------------------------------------------- C10
\* What was printed after the heading of the summary block.
AfterSummaryHeader ==
    LET k == CHOOSE i \in DOMAIN out : out[i] = Line("Summary:")
    IN  SubSeq(out, k + 2, Len(out))

Rank(i) == CHOOSE k \in DOMAIN IssueOrder : IssueOrder[k] = i

\* C10: at the summary canDeposit is false exactly when there are issues;
\* the output is either the success line alone or the header, one line
\* per issue (at least one) and the remediation hint; the issues come in
\* the fixed order, each at most once.
C10_SummaryOutput ==
    SummaryDone =>
        /\ ~can_deposit <=> issues /= <<>>
        /\ \/ /\ can_deposit
              /\ AfterSummaryHeader = <<SuccessLine, Rule>>
           \/ /\ ~can_deposit
              /\ Len(issues) >= 1
              /\ AfterSummaryHeader =
                    <<IssuesHeader>>
                    \o [i \in 1..Len(issues) |-> LineS("  {issue}", issues[i].msg)]
                    \o FixHint \o <<Rule>>
        /\ \A i \in DOMAIN issues : \E k \in DOMAIN IssueOrder : IssueOrder[k] = issues[i]
        /\ \A i, j \in DOMAIN issues : i < j => Rank(issues[i]) < Rank(issues[j])

\* All four issues at once.
C10_Witness ==
    /\ SummaryDone
    /\ issues = IssueOrder
    /\ ~can_deposit

====
